---- MODULE Spec2Model ----
(***************************************************************************)
(* Model of LoggingTools' log ingestion pipeline                           *)
(* (src/LoggingTools/LogProcessor.py): the per-file record assembler of    *)
(* LogProcessor.process_log_file, the file moves between the unprocessed,  *)
(* processed and errors directories, and the iteration of                  *)
(* LogProcessor.process_all_logs.                                          *)
(*                                                                         *)
(* A line of text is a sequence of tokens: a token is a word or one run of *)
(* whitespace (SP).  The content of the file being processed is revealed   *)
(* one line at a time, so that every file of at most MaxLines lines drawn  *)
(* from LineSet is covered.                                                *)
(*                                                                         *)
(* A second specification, SpecPush, models S3Uploader.upload_directory    *)
(* and upload_file of src/LoggingTools/LogPush.py.                         *)
(* A third one, SpecHandlers, models                                       *)
(* LoggerFactory.replace_logger_handlers of                                *)
(* src/LoggingTools/LoggingHelper.py.                                      *)
(***************************************************************************)
EXTENDS Integers, Sequences, FiniteSets, TLC

\* ------------------------------------------------------------------ bounds
MaxLines == 3
NumFiles == 2
MaxRuns  == 2
\* lines of the file written into unprocessed during a run
MaxAddedLines == 1
\* handlers attached to the logger when replace_logger_handlers is called
MaxHandlers == 2

\* ------------------------------------------------------------------ text
SP == " "

GoodTs == "2024-06-15T10:00:00"
BadTs  == "9999-99-99T99:99:99"

L_rec    == <<"ERROR", SP, "Failed">>
L_ts     == <<GoodTs, SP, "INFO", SP, "Starting", SP>>
L_badts  == <<BadTs, SP, "INFO", SP, "Starting">>
L_contX  == <<SP, "at-module-X", SP>>
L_garb   == <<"garbage">>
L_blank  == <<SP>>

LineSet == {L_rec, L_ts, L_badts, L_contX, L_garb, L_blank}

IsSpace(t) == t = SP

RECURSIVE LStrip(_)
LStrip(s) == IF s # <<>> /\ IsSpace(Head(s)) THEN LStrip(Tail(s)) ELSE s

RECURSIVE RStrip(_)
RStrip(s) ==
    IF s # <<>> /\ IsSpace(s[Len(s)]) THEN RStrip(SubSeq(s, 1, Len(s) - 1)) ELSE s

\* str.strip()
Strip(s) == RStrip(LStrip(s))

\* str.startswith(" ")
StartsWithSpace(s) == s # <<>> /\ Head(s) = SP

\* ------------------------------------------------------------------ catalog
TokClass(cls) ==
    CASE cls = "stamp" -> {GoodTs, BadTs}
      [] cls = "level" -> {"INFO", "ERROR"}
      [] OTHER         -> {}

\* self.log_formats after initialize(): ordered list of {name, pattern}
log_formats ==
    << [name    |-> "timestamped",
        pattern |-> << [cls |-> "stamp", name |-> "timestamp"],
                       [cls |-> "space", name |-> ""],
                       [cls |-> "level", name |-> "level"],
                       [cls |-> "space", name |-> ""],
                       [cls |-> "rest",  name |-> "message"] >>],
       [name    |-> "levelled",
        pattern |-> << [cls |-> "level", name |-> "level"],
                       [cls |-> "space", name |-> ""],
                       [cls |-> "rest",  name |-> "message"] >>],
       [name    |-> "stamped",
        pattern |-> << [cls |-> "stamp", name |-> "timestamp"],
                       [cls |-> "space", name |-> ""],
                       [cls |-> "rest",  name |-> "message"] >>] >>

\* self.timestamp_formats after initialize(): ordered list of {pattern}
timestamp_formats == << [pattern |-> "%Y-%m-%dT%H:%M:%S"] >>

None == <<"None">>

\* re.match(pattern, s): <<groupdict>> when a prefix of s matches, <<>> if not
RECURSIVE MatchFrom(_, _, _)
MatchFrom(pat, s, acc) ==
    IF pat = <<>> THEN <<acc>>
    ELSE LET p == Head(pat) IN
         IF p.cls = "rest" THEN MatchFrom(Tail(pat), <<>>, acc @@ (p.name :> s))
         ELSE IF s = <<>> THEN <<>>
         ELSE IF p.cls = "space"
              THEN IF Head(s) = SP THEN MatchFrom(Tail(pat), Tail(s), acc) ELSE <<>>
         ELSE IF Head(s) \in TokClass(p.cls)
              THEN MatchFrom(Tail(pat), Tail(s), acc @@ (p.name :> <<Head(s)>>))
              ELSE <<>>

re_match(pattern, s) == MatchFrom(pattern, s, <<>>)

\* datetime.strptime(timestamp, pattern): <<datetime>>, or <<>> on ValueError
strptime(timestamp, pattern) ==
    IF pattern = "%Y-%m-%dT%H:%M:%S" /\ timestamp = <<GoodTs>>
    THEN << <<"datetime", "2024", "06", "15", "10", "00", "00">> >>
    ELSE <<>>

\* dateutil.parser.parse(timestamp): <<datetime>>, or <<>> when it raises
dateutil_parse(timestamp) ==
    IF timestamp = <<GoodTs>>
    THEN << <<"datetime", "2024", "06", "15", "10", "00", "00">> >>
    ELSE <<>>

RECURSIVE TryFormats(_, _)
TryFormats(fmts, timestamp) ==
    IF fmts = <<>> THEN <<>>
    ELSE LET r == strptime(timestamp, Head(fmts).pattern) IN
         IF r # <<>> THEN r ELSE TryFormats(Tail(fmts), timestamp)

\* parse_timestamp that returns the text it could not parse
parse_timestamp_keepText(timestamp) ==
    LET r == TryFormats(timestamp_formats, timestamp) IN
    IF r # <<>> THEN [value |-> r[1], warned |-> FALSE]
    ELSE LET d == dateutil_parse(timestamp) IN
         IF d # <<>> THEN [value |-> d[1], warned |-> FALSE]
         ELSE [value |-> timestamp, warned |-> TRUE]

\* LogProcessor.parse_timestamp: the value returned and the warnings logged
parse_timestamp(timestamp) ==
    LET r == TryFormats(timestamp_formats, timestamp) IN
    IF r # <<>> THEN [value |-> r[1], warned |-> FALSE]
    ELSE LET d == dateutil_parse(timestamp) IN
         IF d # <<>> THEN [value |-> d[1], warned |-> FALSE]
         ELSE [value |-> None, warned |-> TRUE]

\* any(re.match(fmt["pattern"], line) for fmt in self.log_formats)
MatchesAnyFormat(line) ==
    \E i \in 1..Len(log_formats) : re_match(log_formats[i].pattern, line) # <<>>

\* LogProcessor.is_continuation
is_continuation(line0) ==
    LET line == Strip(line0) IN
    IF line = <<>> THEN FALSE
    ELSE IF MatchesAnyFormat(line) THEN FALSE
    ELSE IF StartsWithSpace(line) THEN TRUE
    ELSE FALSE

\* LogProcessor.parse_log_line: <<>> for None, else <<[data, tswarn]>>
RECURSIVE ParseWith(_, _)
ParseWith(fmts, line) ==
    IF fmts = <<>> THEN <<>>
    ELSE LET m == re_match(Head(fmts).pattern, line) IN
         IF m # <<>>
         THEN LET parsed_data == m[1] IN
              IF "timestamp" \in DOMAIN parsed_data /\ parsed_data["timestamp"] # <<>>
              THEN LET t == parse_timestamp(parsed_data["timestamp"]) IN
                   << [data   |-> [parsed_data EXCEPT !["timestamp"] = t.value],
                       tswarn |-> t.warned] >>
              ELSE << [data |-> parsed_data, tswarn |-> FALSE] >>
         ELSE ParseWith(Tail(fmts), line)

\* parse_log_line that tries the formats from the last to the first
parse_log_line_lastFirst(line) ==
    ParseWith([i \in 1..Len(log_formats) |-> log_formats[Len(log_formats) + 1 - i]],
              line)

parse_log_line(line) == ParseWith(log_formats, line)

\* ------------------------------------------------------------------ state
\* the files waiting in unprocessed, named by their position in the order in
\* which iterdir() yields them
Names == 1..NumFiles

\* a file is a name and a generation: generation 1 files wait in unprocessed
\* when the model starts, generation 0 files were moved by an earlier process,
\* the generation 2 file is written into unprocessed while a run is in progress
File == [name : Names, gen : {0, 1, 2}]

\* the file another process writes into unprocessed during a run, under the
\* name of a file that has already left the directory
Added == [name |-> 1, gen |-> 2]

\* a sub-directory of unprocessed, which iterdir() yields after the files
SubDir == [name |-> NumFiles + 1, gen |-> 1]

\* file_path.is_file()
is_file(p) == p \in File

\* S3Manager of the import at the top of the module: None, the S3Tools
\* package is not installed
S3Manager == <<>>

SkipMsg == "Skipping S3 download."

NotInstalledMsg == "S3Tools not installed. S3 functionality will be disabled."

NoFile == [name |-> 0, gen |-> 0]

\* names under which an earlier process left a file in processed (a
\* downloaded or rotated log file comes back under its old name)
OldNames == {1}

DirNames == {"unprocessed", "processed", "errors"}

VARIABLES
    dirs,          \* directory name -> set of files stored in it
    pc,            \* control point of the process
    s3_pull,       \* the s3_pull argument of the running process_all_logs
    log,           \* warnings the processor logged outside process_log_file
    runs,          \* number of process_all_logs calls started
    listed,        \* the iterdir() listing of the current run
    listing,       \* entries of the listing not yet visited
    visited,       \* files process_log_file was called on in this run
    cur,           \* file_path of the current process_log_file call
    content,       \* lines of cur read so far, as they are in the file
    log_line_num,  \* log_line_num
    buffer,        \* buffer: <<>> for None, <<parsed_data>> otherwise
    bufLines,      \* line numbers folded into the buffered record
    sink,          \* records handed to insert_into_database for cur
    warnings,      \* warnings logged while processing cur
    branches,      \* branch of the loop body taken by each line read
    insert_num,    \* self.insert_num
    raised         \* where the try block of process_log_file raised

\* S3Uploader (LogPush.py) and the directory it uploads
VARIABLES
    plocal,             \* files present under the directory to upload
    bucket,             \* objects of the S3 bucket: set of [key, file]
    upc,                \* control point of upload_directory
    queue,              \* files os.walk has still to yield
    use_filename_only,  \* argument of upload_directory
    key_prefix,         \* self.key_prefix
    ulog,               \* errors logged by upload_file
    outcome             \* how the last self.s3_client.upload_file call ended

\* LoggerFactory.replace_logger_handlers (LoggingHelper.py) and its logger
VARIABLES
    handlers,      \* logger.handlers
    new_handlers,  \* the new_handlers argument
    hpc,           \* control point of replace_logger_handlers
    idx,           \* position of the running for loop in the list it iterates
    old_handlers   \* logger.handlers when replace_logger_handlers was called

procVars == <<dirs, pc, s3_pull, log, runs, listed, listing, visited, cur, content,
              log_line_num, buffer, bufLines, sink, warnings, branches, insert_num,
              raised>>

pushVars == <<plocal, bucket, upc, queue, use_filename_only, key_prefix, ulog,
              outcome>>

hdlVars == <<handlers, new_handlers, hpc, idx, old_handlers>>

vars == <<procVars, pushVars, hdlVars>>

fileVars == <<content, log_line_num, buffer, bufLines, sink, warnings, branches,
              raised>>

\* LogProcessor.__init__ (insert_num = 0) and the directories it finds
Init ==
    /\ dirs = [d \in DirNames |->
                 CASE d = "unprocessed" ->
                           {[name |-> n, gen |-> 1] : n \in Names} \cup {SubDir}
                   [] d = "processed"   -> {[name |-> n, gen |-> 0] : n \in OldNames}
                   [] d = "errors"      -> {}]
    /\ pc = "idle"
    /\ s3_pull = FALSE
    /\ log = <<NotInstalledMsg>>
    /\ runs = 0
    /\ listed = {}
    /\ listing = {}
    /\ visited = {}
    /\ cur = NoFile
    /\ content = <<>>
    /\ log_line_num = 0
    /\ buffer = <<>>
    /\ bufLines = <<>>
    /\ sink = <<>>
    /\ warnings = <<>>
    /\ branches = <<>>
    /\ insert_num = 0
    /\ raised = "none"
    /\ plocal = {}
    /\ bucket = {}
    /\ upc = "idle"
    /\ queue = <<>>
    /\ use_filename_only = FALSE
    /\ key_prefix = <<>>
    /\ ulog = <<>>
    /\ outcome = "none"
    /\ handlers = <<>>
    /\ new_handlers = <<>>
    /\ hpc = "idle"
    /\ idx = 0
    /\ old_handlers = <<>>

\* shutil_move that copies and leaves the source in place
shutil_move_copy(d, f, dst) ==
    [d EXCEPT ![dst] = {g \in @ : g.name # f.name} \cup {f}]

\* shutil.move(file_path, dst / file_path.name): a rename, which replaces an
\* entry of the same name in the destination directory
shutil_move(d, f, dst) ==
    [d EXCEPT !["unprocessed"] = @ \ {f},
              ![dst] = {g \in @ : g.name # f.name} \cup {f}]

\* ------------------------------------------------------------------ assembler
\* the local state of one process_log_file call
Local == [buffer |-> buffer, bufLines |-> bufLines, sink |-> sink,
          warnings |-> warnings, branches |-> branches,
          insert_num |-> insert_num]

\* LogProcessor.insert_into_database(buffer), called at line number `at`
\* (0 for the flush after the loop)
insert_into_database(st, at) ==
    [st EXCEPT !.sink = Append(@, [data  |-> st.buffer[1],
                                   lines |-> st.bufLines,
                                   at    |-> at]),
               !.insert_num = @ + 1]

\* FlushBuffer that resets the buffer without the sink call
FlushBuffer_drop(st, at) ==
    [st EXCEPT !.buffer = <<>>, !.bufLines = <<>>]

\* FlushBuffer without `buffer = None`
FlushBuffer_keep(st, at) ==
    IF st.buffer # <<>> THEN insert_into_database(st, at) ELSE st

\* if buffer: insert_into_database(buffer); buffer = None
FlushBuffer(st, at) ==
    IF st.buffer # <<>>
    THEN [insert_into_database(st, at) EXCEPT !.buffer = <<>>, !.bufLines = <<>>]
    ELSE st

\* Warn that logs nothing
Warn_silent(st, kind, n, line) == st

\* self.logger.warning(...) while a file is processed
Warn(st, kind, n, line) ==
    [st EXCEPT !.warnings = Append(@, [kind |-> kind, line_num |-> n, text |-> line])]

\* NewEntry with the flush moved under `if parsed_data`
NewEntry_flushOnMatch(st, n, line) ==
    LET parsed == parse_log_line(line)
    IN  IF parsed # <<>>
        THEN LET s1 == FlushBuffer(st, n)
                 s2 == IF parsed[1].tswarn
                       THEN Warn(s1, "timestamp", n, line) ELSE s1
             IN  [s2 EXCEPT !.buffer = << parsed[1].data @@ ("raw_line" :> line) >>,
                            !.bufLines = <<n>>]
        ELSE Warn(st, "unparseable", n, line)

\* the branch of a line that is not a continuation
NewEntry(st, n, line) ==
    LET s1 == FlushBuffer(st, n)
        parsed == parse_log_line(line)
    IN  IF parsed # <<>>
        THEN LET s2 == IF parsed[1].tswarn
                       THEN Warn(s1, "timestamp", n, line) ELSE s1
             IN  [s2 EXCEPT !.buffer = << parsed[1].data @@ ("raw_line" :> line) >>,
                            !.bufLines = <<n>>]
        ELSE Warn(s1, "unparseable", n, line)

\* the branch of a continuation line
Continuation(st, n, line) ==
    IF st.buffer # <<>>
    THEN [st EXCEPT !.buffer[1]["message"] = @ \o <<SP>> \o line,
                    !.bufLines = Append(@, n)]
    ELSE Warn(st, "orphan", n, line)

\* one iteration of `for line in log_file`
LoopBody(st, n, line0) ==
    LET line == Strip(line0) IN
    IF ~ is_continuation(line)
    THEN NewEntry([st EXCEPT !.branches = Append(@, "new_entry")], n, line)
    ELSE Continuation([st EXCEPT !.branches = Append(@, "continuation")], n, line)

SetLocal(st) ==
    /\ buffer' = st.buffer
    /\ bufLines' = st.bufLines
    /\ sink' = st.sink
    /\ warnings' = st.warnings
    /\ branches' = st.branches
    /\ insert_num' = st.insert_num

\* ------------------------------------------------------------------ actions
\* StartRun that sets insert_num back to 0
StartRun_resetCounter ==
    /\ pc = "idle"
    /\ runs < MaxRuns
    /\ runs' = runs + 1
    /\ \E b \in BOOLEAN : s3_pull' = b
    /\ visited' = {}
    /\ cur' = NoFile
    /\ pc' = "s3"
    /\ insert_num' = 0
    /\ UNCHANGED <<dirs, log, listed, listing>>
    /\ UNCHANGED fileVars
    /\ UNCHANGED pushVars
    /\ UNCHANGED hdlVars

\* process_all_logs(s3_pull) is called: initialize()
StartRun ==
    /\ pc = "idle"
    /\ runs < MaxRuns
    /\ runs' = runs + 1
    /\ \E b \in BOOLEAN : s3_pull' = b
    /\ visited' = {}
    /\ cur' = NoFile
    /\ pc' = "s3"
    /\ UNCHANGED <<dirs, log, listed, listing, insert_num>>
    /\ UNCHANGED fileVars
    /\ UNCHANGED pushVars
    /\ UNCHANGED hdlVars

\* if s3_pull and S3Manager: ... else: warning("Skipping S3 download.")
\* (S3Manager is None, so the else branch is the one taken)
SkipDownload ==
    /\ pc = "s3"
    /\ ~ (s3_pull /\ S3Manager # <<>>)
    /\ log' = Append(log, SkipMsg)
    /\ pc' = "list"
    /\ UNCHANGED <<dirs, s3_pull, runs, listed, listing, visited, cur, insert_num>>
    /\ UNCHANGED fileVars
    /\ UNCHANGED pushVars
    /\ UNCHANGED hdlVars

\* self.unprocessed_dir.iterdir() lists the directory
ListDir ==
    /\ pc = "list"
    /\ listed' = dirs["unprocessed"]
    /\ listing' = dirs["unprocessed"]
    /\ s3_pull' = FALSE
    /\ pc' = "iter"
    /\ UNCHANGED <<dirs, log, runs, visited, cur, insert_num>>
    /\ UNCHANGED fileVars
    /\ UNCHANGED pushVars
    /\ UNCHANGED hdlVars

\* another process writes a file into unprocessed while the run iterates
AddFile ==
    /\ pc = "iter"
    /\ \A d \in DirNames : Added \notin dirs[d]
    /\ \A f \in dirs["unprocessed"] : f.name # Added.name
    /\ dirs' = [dirs EXCEPT !["unprocessed"] = @ \cup {Added}]
    /\ UNCHANGED <<pc, s3_pull, log, runs, listed, listing, visited, cur,
                   insert_num>>
    /\ UNCHANGED fileVars
    /\ UNCHANGED pushVars
    /\ UNCHANGED hdlVars

\* the locals of process_log_file are gone once it has ended
DropLocals ==
    /\ content' = <<>>
    /\ log_line_num' = 0
    /\ buffer' = <<>>
    /\ bufLines' = <<>>
    /\ sink' = <<>>
    /\ warnings' = <<>>
    /\ branches' = <<>>

ResetLocals ==
    /\ DropLocals
    /\ raised' = "none"

\* the entry iterdir() yields next
NextEntry(l) == CHOOSE f \in l : \A g \in l : f.name <= g.name

\* next entry of the listing: process_log_file(file_path) starts
NextFile ==
    /\ pc = "iter"
    /\ listing # {}
    /\ LET f == NextEntry(listing) IN
          /\ is_file(f)
          /\ listing' = listing \ {f}
          /\ cur' = f
          /\ visited' = visited \cup {f}
    /\ ResetLocals
    /\ pc' = "open"
    /\ UNCHANGED <<dirs, s3_pull, log, runs, listed, insert_num>>
    /\ UNCHANGED pushVars
    /\ UNCHANGED hdlVars

\* next entry of the listing is not a regular file: the loop goes on
SkipEntry ==
    /\ pc = "iter"
    /\ listing # {}
    /\ LET f == NextEntry(listing) IN
          /\ ~ is_file(f)
          /\ listing' = listing \ {f}
    /\ UNCHANGED <<dirs, pc, s3_pull, log, runs, listed, visited, cur, insert_num>>
    /\ UNCHANGED fileVars
    /\ UNCHANGED pushVars
    /\ UNCHANGED hdlVars

\* the listing is exhausted: process_all_logs returns
EndRun ==
    /\ pc = "iter"
    /\ listing = {}
    /\ pc' = "idle"
    /\ cur' = NoFile
    /\ ResetLocals
    /\ UNCHANGED <<dirs, s3_pull, log, runs, listed, listing, visited, insert_num>>
    /\ UNCHANGED pushVars
    /\ UNCHANGED hdlVars

\* open(file_path, 'r') succeeds
OpenOk ==
    /\ pc = "open"
    /\ pc' = "read"
    /\ UNCHANGED <<dirs, s3_pull, log, runs, listed, listing, visited, cur, insert_num>>
    /\ UNCHANGED fileVars
    /\ UNCHANGED pushVars
    /\ UNCHANGED hdlVars

\* open(file_path, 'r') raises
OpenFault ==
    /\ pc = "open"
    /\ raised' = "open"
    /\ pc' = "except"
    /\ UNCHANGED <<dirs, s3_pull, log, runs, listed, listing, visited, cur, insert_num,
                   content, log_line_num, buffer, bufLines, sink, warnings,
                   branches>>
    /\ UNCHANGED pushVars
    /\ UNCHANGED hdlVars

\* the file has one more line
ReadLine ==
    /\ pc = "read"
    /\ Len(content) < (IF cur = Added THEN MaxAddedLines ELSE MaxLines)
    /\ \E l \in LineSet :
          /\ content' = Append(content, l)
          /\ log_line_num' = log_line_num + 1
          /\ SetLocal(LoopBody(Local, log_line_num + 1, l))
    /\ UNCHANGED <<dirs, pc, s3_pull, log, runs, listed, listing, visited, cur, raised>>
    /\ UNCHANGED pushVars
    /\ UNCHANGED hdlVars

\* reading the next line raises
ReadFault ==
    /\ pc = "read"
    /\ raised' = "read"
    /\ pc' = "except"
    /\ UNCHANGED <<dirs, s3_pull, log, runs, listed, listing, visited, cur, insert_num,
                   content, log_line_num, buffer, bufLines, sink, warnings,
                   branches>>
    /\ UNCHANGED pushVars
    /\ UNCHANGED hdlVars

\* EndOfFile without the flush of the last buffer
EndOfFile_noFlush ==
    /\ pc = "read"
    /\ pc' = "move"
    /\ UNCHANGED <<dirs, s3_pull, log, runs, listed, listing, visited, cur, insert_num>>
    /\ UNCHANGED fileVars
    /\ UNCHANGED pushVars
    /\ UNCHANGED hdlVars

\* end of file: flush the last buffer
EndOfFile ==
    /\ pc = "read"
    /\ SetLocal(FlushBuffer(Local, 0))
    /\ pc' = "move"
    /\ UNCHANGED <<dirs, s3_pull, log, runs, listed, listing, visited, cur, content,
                   log_line_num, raised>>
    /\ UNCHANGED pushVars
    /\ UNCHANGED hdlVars

\* MoveProcessed with the error directory as destination
MoveProcessed_toErrors ==
    /\ pc = "move"
    /\ dirs' = shutil_move(dirs, cur, "errors")
    /\ pc' = "iter"
    /\ DropLocals
    /\ UNCHANGED <<s3_pull, log, runs, listed, listing, visited, cur, insert_num,
                   raised>>
    /\ UNCHANGED pushVars
    /\ UNCHANGED hdlVars

\* shutil.move(file_path, self.processed_dir / file_path.name) succeeds
MoveProcessed ==
    /\ pc = "move"
    /\ dirs' = shutil_move(dirs, cur, "processed")
    /\ pc' = "iter"
    /\ DropLocals
    /\ UNCHANGED <<s3_pull, log, runs, listed, listing, visited, cur, insert_num,
                   raised>>
    /\ UNCHANGED pushVars
    /\ UNCHANGED hdlVars

\* shutil.move to processed raises
MoveFault ==
    /\ pc = "move"
    /\ raised' = "move"
    /\ pc' = "except"
    /\ UNCHANGED <<dirs, s3_pull, log, runs, listed, listing, visited, cur, insert_num,
                   content, log_line_num, buffer, bufLines, sink, warnings,
                   branches>>
    /\ UNCHANGED pushVars
    /\ UNCHANGED hdlVars

\* except: shutil.move(file_path, self.error_dir / file_path.name) succeeds
MoveError ==
    /\ pc = "except"
    /\ dirs' = shutil_move(dirs, cur, "errors")
    /\ pc' = "iter"
    /\ DropLocals
    /\ UNCHANGED <<s3_pull, log, runs, listed, listing, visited, cur, insert_num,
                   raised>>
    /\ UNCHANGED pushVars
    /\ UNCHANGED hdlVars

\* the move in the except clause raises: nothing catches it
MoveErrorFault ==
    /\ pc = "except"
    /\ pc' = "aborted"
    /\ DropLocals
    /\ UNCHANGED <<dirs, s3_pull, log, runs, listed, listing, visited, cur,
                   insert_num, raised>>
    /\ UNCHANGED pushVars
    /\ UNCHANGED hdlVars

\* the process is killed: its memory is lost, the directories stay
Crash ==
    /\ pc \in {"s3", "list", "iter", "open", "read", "move", "except"}
    /\ pc' = "crashed"
    /\ cur' = NoFile
    /\ listing' = {}
    /\ visited' = {}
    /\ insert_num' = 0
    /\ ResetLocals
    /\ s3_pull' = FALSE
    /\ UNCHANGED <<dirs, log, runs, listed>>
    /\ UNCHANGED pushVars
    /\ UNCHANGED hdlVars

Next ==
    \/ StartRun
    \/ SkipDownload
    \/ ListDir
    \/ AddFile
    \/ NextFile
    \/ SkipEntry
    \/ EndRun
    \/ OpenOk
    \/ OpenFault
    \/ ReadLine
    \/ ReadFault
    \/ EndOfFile
    \/ MoveProcessed
    \/ MoveFault
    \/ MoveError
    \/ MoveErrorFault
    \/ Crash

Spec == Init /\ [][Next]_vars

TypeOK ==
    /\ pc \in {"idle", "s3", "list", "iter", "open", "read", "move", "except",
              "aborted", "crashed"}
    /\ s3_pull \in BOOLEAN
    /\ \A d \in DirNames : dirs[d] \subseteq File \cup {SubDir}
    /\ Len(buffer) <= 1
    /\ insert_num \in Nat

\* ------------------------------------------------------------------ LogPush
\* the files of the directory to upload: a sub-directory ("" is the directory
\* itself) and a file name
PFile == [dir : {"", "sub"}, base : {"a.log", "b.log"}]

\* os.walk(directory_to_upload): the directory first, then its sub-directory
WalkOrder ==
    << [dir |-> "",    base |-> "a.log"], [dir |-> "",    base |-> "b.log"],
       [dir |-> "sub", base |-> "a.log"], [dir |-> "sub", base |-> "b.log"] >>

\* the exceptions upload_file catches, and one it does not catch
Caught == {"FileNotFoundError", "NoCredentialsError", "ClientError"}

Uncaught == "S3UploadFailedError"

\* os.path.relpath(file_path, directory_to_upload), as path components
relpath(f) == IF f.dir = "" THEN <<f.base>> ELSE <<f.dir, f.base>>

\* s3_key as upload_directory computes it
s3_key(f, filename_only, prefix) ==
    LET k == IF filename_only THEN <<f.base>> ELSE relpath(f)
    IN  IF prefix # <<>> THEN prefix \o k ELSE k

\* the state upload_file works on
PushState == [plocal |-> plocal, bucket |-> bucket, ulog |-> ulog]

\* upload_file that removes the local file whatever the upload did
upload_file_alwaysRemove(st, f, key, res) ==
    IF res = "ok"
    THEN [st EXCEPT !.bucket = {o \in @ : o.key # key} \cup {[key |-> key, file |-> f]},
                    !.plocal = @ \ {f}]
    ELSE IF res \in Caught
    THEN [st EXCEPT !.ulog = Append(@, [file |-> f, error |-> res]),
                    !.plocal = @ \ {f}]
    ELSE [st EXCEPT !.plocal = @ \ {f}]

\* S3Uploader.upload_file(file_path, s3_key) when s3_client.upload_file ends
\* with res: "ok", or the name of the exception it raised
upload_file(st, f, key, res) ==
    IF res = "ok"
    THEN [st EXCEPT !.bucket = {o \in @ : o.key # key} \cup {[key |-> key, file |-> f]},
                    !.plocal = @ \ {f}]
    ELSE IF res \in Caught
    THEN [st EXCEPT !.ulog = Append(@, [file |-> f, error |-> res])]
    ELSE st

SetPush(st) ==
    /\ plocal' = st.plocal
    /\ bucket' = st.bucket
    /\ ulog' = st.ulog

\* S3Uploader is constructed; the directory holds its files
PushInit ==
    /\ plocal = PFile
    /\ bucket = {}
    /\ upc = "idle"
    /\ queue = <<>>
    /\ use_filename_only = FALSE
    /\ key_prefix \in {<<>>, <<"logs">>}
    /\ ulog = <<>>
    /\ outcome = "none"
    /\ dirs = [d \in DirNames |-> {}]
    /\ pc = "idle"
    /\ s3_pull = FALSE
    /\ log = <<>>
    /\ runs = 0
    /\ listed = {}
    /\ listing = {}
    /\ visited = {}
    /\ cur = NoFile
    /\ content = <<>>
    /\ log_line_num = 0
    /\ buffer = <<>>
    /\ bufLines = <<>>
    /\ sink = <<>>
    /\ warnings = <<>>
    /\ branches = <<>>
    /\ insert_num = 0
    /\ raised = "none"
    /\ handlers = <<>>
    /\ new_handlers = <<>>
    /\ hpc = "idle"
    /\ idx = 0
    /\ old_handlers = <<>>

\* upload_directory(directory_to_upload, use_filename_only) is called
StartUpload ==
    /\ upc = "idle"
    /\ \E b \in BOOLEAN : use_filename_only' = b
    /\ queue' = SelectSeq(WalkOrder, LAMBDA f : f \in plocal)
    /\ upc' = "walk"
    /\ outcome' = "none"
    /\ UNCHANGED <<plocal, bucket, key_prefix, ulog>>
    /\ UNCHANGED procVars
    /\ UNCHANGED hdlVars

\* another process removes a file os.walk has still to yield
Vanish ==
    /\ upc = "walk"
    /\ \E i \in 1..Len(queue) :
          /\ queue[i] \in plocal
          /\ plocal' = plocal \ {queue[i]}
    /\ UNCHANGED <<bucket, upc, queue, use_filename_only, key_prefix, ulog, outcome>>
    /\ UNCHANGED procVars
    /\ UNCHANGED hdlVars

\* the results s3_client.upload_file can have for file f
Results(f) ==
    IF f \in plocal
    THEN {"ok", "NoCredentialsError", "ClientError", Uncaught}
    ELSE {"FileNotFoundError"}

\* one iteration of the loops of upload_directory: self.upload_file(...)
\* returns
UploadFile ==
    /\ upc = "walk"
    /\ queue # <<>>
    /\ LET f == Head(queue) IN
       \E res \in Results(f) \ {Uncaught} :
          /\ SetPush(upload_file(PushState, f,
                                  s3_key(f, use_filename_only, key_prefix), res))
          /\ outcome' = res
    /\ queue' = Tail(queue)
    /\ UNCHANGED <<upc, use_filename_only, key_prefix>>
    /\ UNCHANGED procVars
    /\ UNCHANGED hdlVars

\* s3_client.upload_file raises an exception upload_file does not catch: it
\* leaves upload_directory
UploadRaises ==
    /\ upc = "walk"
    /\ queue # <<>>
    /\ LET f == Head(queue) IN
          /\ Uncaught \in Results(f)
          /\ SetPush(upload_file(PushState, f,
                                  s3_key(f, use_filename_only, key_prefix), Uncaught))
    /\ outcome' = Uncaught
    /\ upc' = "raised"
    /\ UNCHANGED <<queue, use_filename_only, key_prefix>>
    /\ UNCHANGED procVars
    /\ UNCHANGED hdlVars

\* os.walk is exhausted: upload_directory returns
EndUpload ==
    /\ upc = "walk"
    /\ queue = <<>>
    /\ upc' = "returned"
    /\ UNCHANGED <<plocal, bucket, queue, use_filename_only, key_prefix, ulog,
                   outcome>>
    /\ UNCHANGED procVars
    /\ UNCHANGED hdlVars

PushNext ==
    \/ StartUpload
    \/ Vanish
    \/ UploadFile
    \/ UploadRaises
    \/ EndUpload

SpecPush == PushInit /\ [][PushNext]_vars

PushTypeOK ==
    /\ upc \in {"idle", "walk", "raised", "returned"}
    /\ plocal \subseteq PFile
    /\ \A o \in bucket : o.file \in PFile
    /\ outcome \in {"none", "ok", Uncaught} \cup Caught

\* ------------------------------------------------------------ LoggingHelper
\* handlers a logger may have when replace_logger_handlers is called, and
\* handlers that may be passed as new_handlers (h1 may be passed again)
OldHandler == {"h1", "h2", "h3"}

NewHandler == {"h1", "n1"}

\* the lists without repetition of at most n elements of S
Lists(S, n) ==
    {q \in UNION {[1..k -> S] : k \in 0..n} :
        \A i, j \in 1..Len(q) : i # j => q[i] # q[j]}

\* Logger.removeHandler(hdlr): if hdlr in self.handlers: self.handlers.remove(hdlr)
removeHandler(hs, hdlr) ==
    IF \E i \in 1..Len(hs) : hs[i] = hdlr
    THEN LET i == CHOOSE i \in 1..Len(hs) :
                     hs[i] = hdlr /\ \A j \in 1..(i - 1) : hs[j] # hdlr
         IN  SubSeq(hs, 1, i - 1) \o SubSeq(hs, i + 1, Len(hs))
    ELSE hs

\* Logger.addHandler(hdlr): if not (hdlr in self.handlers): append
addHandler(hs, hdlr) ==
    IF \E i \in 1..Len(hs) : hs[i] = hdlr THEN hs ELSE Append(hs, hdlr)

\* no LogProcessor is at work
ProcOff ==
    /\ dirs = [d \in DirNames |-> {}]
    /\ pc = "idle"
    /\ s3_pull = FALSE
    /\ log = <<>>
    /\ runs = 0
    /\ listed = {}
    /\ listing = {}
    /\ visited = {}
    /\ cur = NoFile
    /\ content = <<>>
    /\ log_line_num = 0
    /\ buffer = <<>>
    /\ bufLines = <<>>
    /\ sink = <<>>
    /\ warnings = <<>>
    /\ branches = <<>>
    /\ insert_num = 0
    /\ raised = "none"

\* no S3Uploader is at work
PushOff ==
    /\ plocal = {}
    /\ bucket = {}
    /\ upc = "idle"
    /\ queue = <<>>
    /\ use_filename_only = FALSE
    /\ key_prefix = <<>>
    /\ ulog = <<>>
    /\ outcome = "none"

\* a logger with its handlers, and the list to replace them with
HandlersInit ==
    /\ handlers \in Lists(OldHandler, MaxHandlers)
    /\ new_handlers \in Lists(NewHandler, Cardinality(NewHandler))
    /\ hpc = "idle"
    /\ idx = 0
    /\ old_handlers = <<>>
    /\ ProcOff
    /\ PushOff

\* replace_logger_handlers(logger, new_handlers) is called and takes the
\* lock; `for handler in logger.handlers` starts at position 0
CallReplace ==
    /\ hpc = "idle"
    /\ old_handlers' = handlers
    /\ idx' = 0
    /\ hpc' = "remove"
    /\ UNCHANGED <<handlers, new_handlers>>
    /\ UNCHANGED <<procVars, pushVars>>

\* the first loop yields the element at its position in the list as it is
\* now, moves one position on, and removes that handler from the list
RemoveNext ==
    /\ hpc = "remove"
    /\ idx < Len(handlers)
    /\ handlers' = removeHandler(handlers, handlers[idx + 1])
    /\ idx' = idx + 1
    /\ UNCHANGED <<new_handlers, hpc, old_handlers>>
    /\ UNCHANGED <<procVars, pushVars>>

\* the position of the first loop is past the end of the list: it ends
RemoveDone ==
    /\ hpc = "remove"
    /\ idx >= Len(handlers)
    /\ idx' = 0
    /\ hpc' = "add"
    /\ UNCHANGED <<handlers, new_handlers, old_handlers>>
    /\ UNCHANGED <<procVars, pushVars>>

\* for handler in new_handlers: logger.addHandler(handler)
AddNext ==
    /\ hpc = "add"
    /\ idx < Len(new_handlers)
    /\ handlers' = addHandler(handlers, new_handlers[idx + 1])
    /\ idx' = idx + 1
    /\ UNCHANGED <<new_handlers, hpc, old_handlers>>
    /\ UNCHANGED <<procVars, pushVars>>

\* the second loop ends: the lock is released, the function returns
AddDone ==
    /\ hpc = "add"
    /\ idx >= Len(new_handlers)
    /\ hpc' = "returned"
    /\ UNCHANGED <<handlers, new_handlers, idx, old_handlers>>
    /\ UNCHANGED <<procVars, pushVars>>

HandlersNext ==
    \/ CallReplace
    \/ RemoveNext
    \/ RemoveDone
    \/ AddNext
    \/ AddDone

SpecHandlers == HandlersInit /\ [][HandlersNext]_vars

HandlersTypeOK ==
    /\ hpc \in {"idle", "remove", "add", "returned"}
    /\ idx \in Nat
    /\ \A i \in 1..Len(handlers) : handlers[i] \in OldHandler \cup NewHandler

\* ------------------------------------------------------------------ claims
\* the kinds of line the specification distinguishes, on the line as read
Blank(l) == Strip(l) = <<>>

Indented(l) == l # <<>> /\ IsSpace(Head(l))

NewRecordLine(l) == MatchesAnyFormat(Strip(l))

ContinuationLine(l) == ~ Blank(l) /\ ~ NewRecordLine(l) /\ Indented(l)

UnparseableLine(l) == ~ Blank(l) /\ ~ NewRecordLine(l) /\ ~ Indented(l)

Range(q) == {q[i] : i \in 1..Len(q)}

\* a line has just been read and its loop body executed
LineStep == pc = "read" /\ Len(content') = Len(content) + 1

LastLine == content'[Len(content')]

\* the text the continuation lines from line j up to the next new-record line
\* add to a message
RECURSIVE Folded(_, _)
Folded(c, j) ==
    IF j > Len(c) \/ NewRecordLine(c[j]) THEN <<>>
    ELSE (IF ContinuationLine(c[j]) THEN <<SP>> \o Strip(c[j]) ELSE <<>>)
         \o Folded(c, j + 1)

\* the message group captured from a new-record line
Captured(l) == re_match(log_formats[CHOOSE i \in 1..Len(log_formats) :
                   re_match(log_formats[i].pattern, Strip(l)) # <<>>].pattern,
                   Strip(l))[1]["message"]

\* C1: once a file is read to its end, the message of every record handed to
\* the sink is the message captured from its starting line followed by a space
\* and the trimmed text of each continuation line up to the next new-record
\* line, in file order.
C1_MessageFoldsContinuations ==
    pc = "move" =>
        \A k \in 1..Len(sink) :
            sink[k].data["message"] =
                Captured(content[sink[k].lines[1]])
                    \o Folded(content, sink[k].lines[1] + 1)

\* C2: a line that matches no line format takes the continuation branch of
\* process_log_file exactly when the line as read begins with whitespace (and
\* is not blank), and is unparseable otherwise.
C2_IndentedLineIsContinuation ==
    \A i \in 1..Len(content) :
        (~ Blank(content[i]) /\ ~ NewRecordLine(content[i])) =>
            (branches[i] = "continuation" <=> Indented(content[i]))

\* C4: a blank line is dropped silently: no record, no warning, no sink call,
\* and the buffered record is left as it was.
C4_BlankLineDropped ==
    [][(LineStep /\ Blank(LastLine)) =>
         /\ buffer' = buffer
         /\ sink' = sink
         /\ warnings' = warnings
         /\ insert_num' = insert_num]_vars

\* C5: process_all_logs never ends by an exception: whatever faults the files
\* raise, it returns normally after process_log_file was called on every file
\* of the listing.
C5_RunNeverAborts ==
    /\ pc # "aborted"
    /\ (pc = "idle" /\ runs > 0) => visited = {f \in listed : is_file(f)}

\* C3 (as stated): an unparseable line emits a warning and leaves the
\* assembler as it was: the buffered record stays buffered and no sink call is
\* made because of that line.
C3_UnparseableKeepsBuffer ==
    [][(LineStep /\ UnparseableLine(LastLine)) =>
         /\ Len(warnings') = Len(warnings) + 1
         /\ buffer' = buffer
         /\ sink' = sink
         /\ insert_num' = insert_num]_vars

\* C3 (amended): an unparseable line emits one warning and ends the buffered
\* record: a record buffered before the line is handed to the sink by that
\* line, in one sink call, and no record is buffered after it; when no record
\* was buffered no sink call is made.
C3_UnparseableFlushesBuffer ==
    [][(LineStep /\ UnparseableLine(LastLine)) =>
         /\ warnings' = Append(warnings, [kind     |-> "unparseable",
                                          line_num |-> log_line_num',
                                          text     |-> Strip(LastLine)])
         /\ buffer' = <<>>
         /\ IF buffer # <<>>
            THEN /\ sink' = Append(sink, [data  |-> buffer[1],
                                          lines |-> bufLines,
                                          at    |-> log_line_num'])
                 /\ insert_num' = insert_num + 1
            ELSE /\ sink' = sink
                 /\ insert_num' = insert_num]_vars

\* a record was handed to the sink by an unparseable line
C3_Witness ==
    \E k \in 1..Len(sink) :
        /\ sink[k].at \in 1..Len(content)
        /\ UnparseableLine(content[sink[k].at])

FileEnded == pc \in {"iter", "aborted"} /\ cur # NoFile

\* C7 (as stated): a file whose lines were all read and handed over ends in
\* processed and not in errors; a file ends in errors only if an error was
\* raised while reading or assembling it.
C7_ErrorsOnlyOnReadFault ==
    FileEnded =>
        /\ raised \notin {"open", "read"} =>
               (cur \in dirs["processed"] /\ cur \notin dirs["errors"])
        /\ cur \in dirs["errors"] => raised \in {"open", "read"}

\* C7 (amended): a file whose lines were all read and handed over and whose
\* move to processed did not raise ends in processed and not in errors; a file
\* ends in errors only if an error was raised while opening, reading or
\* assembling it or while moving it to processed.
C7_ProcessedUnlessFault ==
    FileEnded =>
        /\ raised = "none" =>
               (cur \in dirs["processed"] /\ cur \notin dirs["errors"])
        /\ cur \in dirs["errors"] => raised \in {"open", "read", "move"}

\* a file with records was read to its end and moved to processed
C7_Witness ==
    /\ FileEnded
    /\ raised = "none"
    /\ insert_num > 0
    /\ cur \in dirs["processed"]

\* number of records handed to the sink that contain line i
RecCount(i) == Cardinality({k \in 1..Len(sink) : i \in Range(sink[k].lines)})

\* number of warnings caused by line i
WarnCount(i) == Cardinality({k \in 1..Len(warnings) : warnings[k].line_num = i})

\* C8 (as stated): in a file read to its end every line has exactly one
\* outcome, a record handed to the sink or a warning, never both, never two,
\* never none.
C8_OneOutcomePerLine ==
    pc = "move" =>
        \A i \in 1..Len(content) : RecCount(i) + WarnCount(i) = 1

\* C8 (amended): in a file read to its end every line is part of exactly one
\* record handed to the sink or causes exactly one warning; the only line
\* with both is a new-record line whose timestamp cannot be parsed: it starts
\* its record, which has no timestamp, and causes the timestamp warning.
C8_OneOutcomeOrTimestampWarning ==
    pc = "move" =>
        \A i \in 1..Len(content) :
            /\ RecCount(i) <= 1
            /\ WarnCount(i) <= 1
            /\ RecCount(i) + WarnCount(i) >= 1
            /\ (RecCount(i) = 1 /\ WarnCount(i) = 1) =>
                   /\ \E k \in 1..Len(warnings) :
                         /\ warnings[k].line_num = i
                         /\ warnings[k].kind = "timestamp"
                   /\ \E k \in 1..Len(sink) :
                         /\ sink[k].lines[1] = i
                         /\ sink[k].data["timestamp"] = None

\* a file was read to its end in which a line with an unparseable timestamp
\* gave a record and a warning, and another line gave a warning only
C8_Witness ==
    /\ pc = "move"
    /\ \E i \in 1..Len(content) : RecCount(i) = 1 /\ WarnCount(i) = 1
    /\ \E i \in 1..Len(content) : RecCount(i) = 0 /\ WarnCount(i) = 1
    /\ \E i \in 1..Len(content) : RecCount(i) = 1 /\ WarnCount(i) = 0

\* C9: in a file whose lines are all blank or new-record lines, read to its
\* end, the number of records handed to the sink is the number of lines that
\* are not blank.
C9_RecordsEqualNonEmptyLines ==
    (pc = "move" /\ \A i \in 1..Len(content) :
                        Blank(content[i]) \/ NewRecordLine(content[i])) =>
        Len(sink) = Cardinality({i \in 1..Len(content) : ~ Blank(content[i])})

\* such a file with two records and a blank line was read to its end
C9_Witness ==
    /\ pc = "move"
    /\ \A i \in 1..Len(content) : Blank(content[i]) \/ NewRecordLine(content[i])
    /\ \E i \in 1..Len(content) : Blank(content[i])
    /\ Len(sink) >= 2

\* number of times the record started by line i was handed to the sink
StartCount(i) == Cardinality({k \in 1..Len(sink) : sink[k].lines[1] = i})

\* records reach the sink in the order of their starting lines
SinkInFileOrder ==
    \A j, k \in 1..Len(sink) : j < k => sink[j].lines[1] < sink[k].lines[1]

\* every record started so far is in the sink once, or is the buffered one
EachRecordOnce ==
    pc \in {"read", "move"} =>
        \A i \in 1..Len(content) :
            NewRecordLine(content[i]) =>
                StartCount(i) + (IF bufLines # <<>> /\ bufLines[1] = i THEN 1 ELSE 0) = 1

NoneAdded == \A d \in DirNames : Added \notin dirs[d]

\* C11: when process_all_logs has returned, no file it processed is still in
\* unprocessed; so in a run after the first, with no download and no file
\* added, no sink call is made and insert_num keeps its value.
C11_RerunInsertsNothing ==
    /\ []((pc = "idle" /\ runs >= 1) => visited \cap dirs["unprocessed"] = {})
    /\ [][(runs >= 2 /\ NoneAdded /\ pc' # "crashed") =>
            /\ insert_num' = insert_num
            /\ sink' = sink
            /\ pc' \notin {"open", "read"}]_vars

\* a second run has returned on a processor whose first run handed records
\* to the sink, and no file was added
C11_Witness ==
    /\ pc = "idle"
    /\ runs = 2
    /\ insert_num > 0
    /\ NoneAdded

\* every new-record line read so far has had its record handed to the sink
AllRecordsAccepted ==
    /\ buffer = <<>>
    /\ \A i \in 1..Len(content) : NewRecordLine(content[i]) => StartCount(i) = 1

\* the step moves cur into directory d
MovedTo(d) == cur \notin dirs[d] /\ cur \in dirs'[d]

\* a sink call is made only for the file being read, which is in unprocessed
SinkCallBeforeMove ==
    insert_num' > insert_num =>
        (pc = "read" /\ cur' = cur /\ cur \in dirs["unprocessed"] /\ dirs' = dirs)

\* C12 (as stated): a file is moved to processed or to errors only after the
\* sink has accepted all of that file's records, and no sink call for a file
\* is made after the file was moved.
C12_MovedAfterAllRecords ==
    [][/\ (MovedTo("processed") \/ MovedTo("errors")) => AllRecordsAccepted
       /\ SinkCallBeforeMove]_vars

\* C12 (amended): a file is moved to processed only after every record of it
\* was handed to the sink; a file moved to errors may leave its buffered
\* record unhanded; no sink call for a file is made after the file was moved.
C12_ProcessedAfterAllRecords ==
    [][/\ MovedTo("processed") => (pc = "move" /\ AllRecordsAccepted)
       /\ MovedTo("errors") => (pc = "except" /\ Len(buffer) <= 1)
       /\ SinkCallBeforeMove]_vars

\* a file with two records is about to be moved to processed, both records
\* handed to the sink
C12_Witness ==
    /\ pc = "move"
    /\ raised = "none"
    /\ Len(sink) = 2
    /\ AllRecordsAccepted

\* C13: when process_log_file fails on a file before any record of it was
\* handed to the sink, the file ends in the errors directory, the loop over
\* the listing goes on, and insert_num is what it was before the file.
C13_EarlyFailureQuarantined ==
    [][(pc = "except" /\ sink = <<>> /\ pc' # "crashed") =>
         /\ pc' = "iter"
         /\ cur \in dirs'["errors"]
         /\ cur \notin dirs'["unprocessed"]
         /\ insert_num' = insert_num]_vars

\* the regular files of the listing taken when the iteration started
RegularListed == {f \in listed : is_file(f)}

\* process_all_logs has ended, by returning or by an exception
RunEnded == runs > 0 /\ pc \in {"idle", "aborted"}

\* C14: a run calls process_log_file on the regular files that were in
\* unprocessed when the iteration started and on nothing else: not on a file
\* added during the run, on every listed regular file once, and never on a
\* sub-directory, which stays where it is.
C14_RunProcessesStartSnapshot ==
    /\ visited \subseteq RegularListed
    /\ visited \cap listing = {}
    /\ (Added \notin listed) => (Added \notin visited)
    /\ RunEnded => visited = RegularListed
    /\ SubDir \in dirs["unprocessed"]
    /\ SubDir \notin dirs["processed"] \cup dirs["errors"]

\* C15: a continuation line (indented, matching no line format) read while
\* no record is buffered causes one warning and is dropped: no record is
\* buffered by it, no sink call is made, and the buffer stays empty.
C15_OrphanContinuationDropped ==
    [][(LineStep /\ ContinuationLine(LastLine) /\ buffer = <<>>) =>
         /\ Len(warnings') = Len(warnings) + 1
         /\ warnings'[Len(warnings')].line_num = log_line_num'
         /\ warnings'[Len(warnings')].text = Strip(LastLine)
         /\ buffer' = <<>>
         /\ sink' = sink
         /\ insert_num' = insert_num
         /\ pc' = "read"
         /\ raised' = "none"]_vars

\* the first line of a file was a continuation line: one warning, nothing
\* buffered, nothing handed to the sink
C15_Witness ==
    /\ pc = "read"
    /\ Len(content) = 1
    /\ ContinuationLine(content[1])
    /\ Len(warnings) = 1
    /\ buffer = <<>>
    /\ sink = <<>>

\* a new-record line whose timestamp neither a configured pattern nor the
\* fallback parser can parse
BadTimestampLine(l) == NewRecordLine(l) /\ Head(Strip(l)) = BadTs

\* C16: a line whose timestamp cannot be parsed does not raise: a warning is
\* logged for it, its record is buffered with timestamp None, and once the
\* file is read to its end that record has been handed to the sink with
\* timestamp None, with no exception raised for the file.
C16_BadTimestampKeepsRecord ==
    /\ [][(LineStep /\ BadTimestampLine(LastLine)) =>
            /\ pc' = "read"
            /\ raised' = "none"
            /\ warnings' = Append(warnings, [kind     |-> "timestamp",
                                             line_num |-> log_line_num',
                                             text     |-> Strip(LastLine)])
            /\ bufLines' = <<log_line_num'>>
            /\ buffer'[1]["timestamp"] = None]_vars
    /\ [](pc = "move" =>
            /\ raised = "none"
            /\ \A i \in 1..Len(content) :
                  BadTimestampLine(content[i]) =>
                      \E k \in 1..Len(sink) :
                          /\ sink[k].lines[1] = i
                          /\ sink[k].data["timestamp"] = None)

\* a file was read to its end and a record with timestamp None was handed to
\* the sink for a line with an unparseable timestamp
C16_Witness ==
    /\ pc = "move"
    /\ raised = "none"
    /\ \E k \in 1..Len(sink) :
          /\ BadTimestampLine(content[sink[k].lines[1]])
          /\ sink[k].data["timestamp"] = None

\* C17: insert_num counts the sink calls made since the processor was
\* constructed: it starts at 0, a step that hands a record to the sink adds
\* one, and no other step of a living processor changes it, the start of
\* another process_all_logs run included.
C17_CounterCountsSinkCalls ==
    /\ [](runs = 0 => insert_num = 0)
    /\ [](insert_num >= Len(sink))
    /\ [][pc' # "crashed" =>
            IF Len(sink') = Len(sink) + 1
            THEN insert_num' = insert_num + 1
            ELSE /\ insert_num' = insert_num
                 /\ sink' = sink \/ sink' = <<>>]_vars

\* in a second run a record was handed to the sink, and insert_num also
\* counts the records of the first run
C17_Witness ==
    /\ runs = 2
    /\ pc = "move"
    /\ Len(sink) >= 1
    /\ insert_num > Len(sink)

\* C18: with S3Manager not installed the constructor logs its warning, and
\* process_all_logs, called with s3_pull true or false, attempts no download,
\* logs the skip warning, lists unprocessed, and does not end by an exception:
\* it returns after every local file of the listing was processed.
C18_RunsWithoutS3Manager ==
    /\ [](S3Manager = <<>> /\ log[1] = NotInstalledMsg)
    /\ [][(pc = "s3" /\ pc' # "crashed") =>
            /\ pc' = "list"
            /\ log' = Append(log, SkipMsg)
            /\ dirs' = dirs]_vars
    /\ [][(pc = "list" /\ pc' # "crashed") =>
            /\ pc' = "iter"
            /\ listing' = dirs["unprocessed"]]_vars
    /\ [](pc # "aborted")
    /\ []((runs > 0 /\ pc = "idle") =>
            /\ visited = RegularListed
            /\ RegularListed \cap dirs["unprocessed"] = {})

\* the positions in the catalog of the line formats a stripped line matches
MatchingFormats(line) ==
    {i \in 1..Len(log_formats) : re_match(log_formats[i].pattern, line) # <<>>}

\* the captures of the first format, in catalog order, that the line matches
FirstMatchCaptures(line) ==
    LET i == CHOOSE i \in MatchingFormats(line) :
                 \A j \in MatchingFormats(line) : i <= j
    IN  re_match(log_formats[i].pattern, line)[1]

\* C19: a line that matches any configured line format starts a new record,
\* and the fields of that record are the groups captured by the first format
\* of the catalog that matches it (the timestamp group after conversion),
\* whatever later formats match as well.
C19_FirstMatchingFormatWins ==
    [][(LineStep /\ MatchingFormats(Strip(LastLine)) # {}) =>
         LET c == FirstMatchCaptures(Strip(LastLine)) IN
         /\ branches'[Len(branches')] = "new_entry"
         /\ bufLines' = <<log_line_num'>>
         /\ DOMAIN buffer'[1] = DOMAIN c \cup {"raw_line"}
         /\ \A key \in DOMAIN c \ {"timestamp"} : buffer'[1][key] = c[key]
         /\ buffer'[1]["raw_line"] = Strip(LastLine)]_vars

\* the record buffered was started by a line that two formats match
C19_Witness ==
    /\ pc = "read"
    /\ buffer # <<>>
    /\ Cardinality(MatchingFormats(Strip(content[bufLines[1]]))) >= 2
    /\ "level" \in DOMAIN buffer[1]

\* the step is one self.upload_file call of upload_directory
UploadStep == upc = "walk" /\ (queue' # queue \/ upc' = "raised")

C21_HandlersReplaced ==
    hpc = "returned" =>
        /\ Range(handlers) = Range(new_handlers)
        /\ \A h \in Range(old_handlers) \ Range(new_handlers) :
              h \notin Range(handlers)

\* the sink calls of a pass over the lines of a file in which nothing
\* raises: the loop body on every line, then the flush after the loop
RECURSIVE Pass(_, _, _)
Pass(st, lines, n) ==
    IF lines = <<>> THEN FlushBuffer(st, 0)
    ELSE Pass(LoopBody(st, n, Head(lines)), Tail(lines), n + 1)

FaultFreeSink(lines) ==
    Pass([buffer |-> <<>>, bufLines |-> <<>>, sink |-> <<>>, warnings |-> <<>>,
          branches |-> <<>>, insert_num |-> 0], lines, 1).sink

IsPrefix(p, q) == Len(p) <= Len(q) /\ \A k \in 1..Len(p) : p[k] = q[k]

\* what the file may hold after the lines read before the fault
Rest == {<<>>} \cup {<<l>> : l \in LineSet}

\* reading the current file has raised after at least one line was read
MidFileFault == pc = "except" /\ raised = "read" /\ log_line_num >= 1

\* C22: when reading a file raises, the records already handed to the sink
\* stay counted, they are a prefix of what a pass without the fault hands
\* over, no further line of the file is processed, and the file ends in the
\* errors directory.
C22_MidFileFaultKeepsPrefix ==
    /\ [][(pc = "read" /\ pc' = "except") =>
            (sink' = sink /\ insert_num' = insert_num)]_vars
    /\ [](MidFileFault =>
            \A rest \in Rest : IsPrefix(sink, FaultFreeSink(content \o rest)))
    /\ [][raised = "read" => ~ LineStep]_vars
    /\ [][(MidFileFault /\ pc' # "crashed") =>
            /\ insert_num' = insert_num
            /\ pc' = "iter"
            /\ cur \in dirs'["errors"]
            /\ cur \notin dirs'["unprocessed"]]_vars

\* the number of entries stored in the three directories
FileCount ==
    Cardinality(dirs["unprocessed"]) + Cardinality(dirs["processed"])
        + Cardinality(dirs["errors"])

\* C23: a move into processed or errors never overwrites or removes a file
\* stored there: every file of the two directories is still there after any
\* step, and a move leaves the number of files in the three directories as
\* it was.
C23_MovesConserveFiles ==
    [][/\ dirs["processed"] \subseteq dirs'["processed"]
       /\ dirs["errors"] \subseteq dirs'["errors"]
       /\ (pc \in {"move", "except"} /\ dirs' # dirs) =>
              FileCount' = FileCount]_vars

\* C24: within one upload_directory call a successful upload never takes the
\* key of another file: every object put into the bucket stays there, so a
\* file removed after its upload can be read back under its key when the
\* call ends, with use_filename_only false and with use_filename_only true.
C24_DistinctKeysPerCall ==
    [][(UploadStep /\ outcome' = "ok") =>
         /\ Head(queue) \notin plocal'
         /\ \A o \in bucket :
               o.file # Head(queue) =>
                   /\ o.key # s3_key(Head(queue), use_filename_only, key_prefix)
                   /\ o \in bucket']_vars

====
